---- MODULE Spec2Model ----
(***************************************************************************)
(* Model of SelectionService (src/features/select/selection-service.ts):   *)
(* the stored model root, the set of selected element ids, the listener    *)
(* list, and the operations register, deregister, modelRootChanged and     *)
(* updateSelection.  Every operation is synchronous and runs to completion *)
(* on the calling thread, so each is one action.  What a call emitted      *)
(* (feedback, listener notifications, in order) and how it ended is kept   *)
(* in trace/outcome; the state the call started from is kept in prev.      *)
(* The calls come one after the other from the editor's event loop: the    *)
(* record of a call is cleared (Return) before the next call starts.       *)
(***************************************************************************)
EXTENDS Integers, Sequences, FiniteSets

VARIABLES root, selectedElementIDs, selectionListeners, call, prev, trace, outcome

vars == <<root, selectedElementIDs, selectionListeners, call, prev, trace, outcome>>

\* ---------------------------------------------------------------- bounds
\* longest select list / deselect list passed to updateSelection
MaxSelect == 2
MaxDeselect == 2

\* ------------------------------------------------------------ the world
\* `undefined` of JavaScript: no root stored / no root passed
Undefined == "undefined"
\* no listener (no failing listener, no listener argument)
None == "none"

Ids == {"n1", "n2"}
\* model roots are distinct objects; rootA and rootC resolve the same ids
Roots == {"rootA", "rootB", "rootC"}
Listeners == {"l1", "l2", "l3"}

\* root.index: the ids the root's index resolves
Index(r) ==
  CASE r = "rootA" -> {"n1", "n2"}
    [] r = "rootB" -> {"n2"}
    [] r = "rootC" -> {"n1", "n2"}

\* root.index.getById(id) !== undefined
getById(r, id) == id \in Index(r)

Range(s) == {s[i] : i \in 1..Len(s)}

SeqsUpTo(S, n) == UNION {[1..k -> S] : k \in 0..n}

IsInjective(s) == \A i, j \in 1..Len(s) : s[i] = s[j] => i = j

\* ------------------------------------------------------- arrays and sets
\* Array.prototype.indexOf: 0-based position of the first occurrence, or -1
indexOf(arr, v) ==
  IF \E i \in 1..Len(arr) : arr[i] = v
    THEN (CHOOSE i \in 1..Len(arr) : arr[i] = v /\ \A j \in 1..(i-1) : arr[j] # v) - 1
    ELSE -1

\* A JavaScript Set iterates in insertion order: a sequence without repetition.
SetHas(s, v) == \E i \in 1..Len(s) : s[i] = v

SetAdd(s, v) == IF SetHas(s, v) THEN s ELSE Append(s, v)

SetDelete(s, v) == SelectSeq(s, LAMBDA x : x # v)

RECURSIVE SetAddAll(_, _)
SetAddAll(s, arr) ==
  IF arr = <<>> THEN s ELSE SetAddAll(SetAdd(s, Head(arr)), Tail(arr))

RECURSIVE SetDeleteAll(_, _)
SetDeleteAll(s, arr) ==
  IF arr = <<>> THEN s ELSE SetDeleteAll(SetDelete(s, Head(arr)), Tail(arr))

\* new Set(iterable)
NewSet(arr) == SetAddAll(<<>>, arr)

\* [...set] and Array.from(set)
ArrayFrom(s) == s

\* utils/array-utils distinctAdd: push unless already contained
distinctAdd(arr, v) == IF indexOf(arr, v) = -1 THEN Append(arr, v) ELSE arr

\* utils/array-utils remove: splice out the first occurrence, if any
remove(arr, v) ==
  LET i == indexOf(arr, v) + 1
  IN IF i >= 1
       THEN SubSeq(arr, 1, i - 1) \o SubSeq(arr, i + 1, Len(arr))
       ELSE arr

\* ------------------------------------------------------ updateSelection
\* the early return taken for a set root instead of an absent one
isNoOpSetRoot(r, select, deselect) ==
  r # Undefined /\ Len(select) = 0 /\ Len(deselect) = 0

\* line 52: the early return
isNoOp(r, select, deselect) ==
  r = Undefined /\ Len(select) = 0 /\ Len(deselect) = 0

\* select wins: the select list is taken whole
toSelectAll(select, deselect) == select

\* line 64: the ids of select that are not in deselect
toSelect(select, deselect) ==
  SelectSeq(select, LAMBDA selectId : indexOf(deselect, selectId) = -1)

\* the ids of deselect that are not in select, selected or not
toDeselectUnchecked(select, deselect, selected) ==
  SelectSeq(deselect, LAMBDA deselectId : indexOf(select, deselectId) = -1)

\* line 65: the ids of deselect that are not in select and are selected
toDeselect(select, deselect, selected) ==
  SelectSeq(deselect, LAMBDA deselectId :
              indexOf(select, deselectId) = -1 /\ SetHas(selected, deselectId))

\* the selection replaced by toSelect instead of updated
applySelectionReplace(selected, select, deselect) ==
  NewSet(toSelect(select, deselect))

\* lines 66-71: delete toDeselect, then add toSelect
applySelection(selected, select, deselect) ==
  SetAddAll(SetDeleteAll(selected, toDeselect(select, deselect, selected)),
            toSelect(select, deselect))

\* the validation loop reporting every pruned id, without the test of line 79
RECURSIVE pruneLoopReportAll(_, _, _, _, _)
pruneLoopReportAll(ids, r, prevRoot, selected, deselected) ==
  IF ids = <<>>
    THEN [threw |-> FALSE, selected |-> selected, deselected |-> deselected]
  ELSE IF r = Undefined
    THEN [threw |-> TRUE, selected |-> selected, deselected |-> deselected]
  ELSE LET id == Head(ids)
       IN IF getById(r, id)
            THEN pruneLoopReportAll(Tail(ids), r, prevRoot, selected, deselected)
            ELSE pruneLoopReportAll(Tail(ids), r, prevRoot, SetDelete(selected, id),
                                    SetAdd(deselected, id))

\* the validation loop without the delete of line 78
RECURSIVE pruneLoopKeep(_, _, _, _, _)
pruneLoopKeep(ids, r, prevRoot, selected, deselected) ==
  IF ids = <<>>
    THEN [threw |-> FALSE, selected |-> selected, deselected |-> deselected]
  ELSE IF r = Undefined
    THEN [threw |-> TRUE, selected |-> selected, deselected |-> deselected]
  ELSE LET id == Head(ids)
       IN IF getById(r, id)
            THEN pruneLoopKeep(Tail(ids), r, prevRoot, selected, deselected)
            ELSE pruneLoopKeep(Tail(ids), r, prevRoot, selected,
                               IF prevRoot # Undefined /\ getById(prevRoot, id)
                                 THEN SetAdd(deselected, id)
                                 ELSE deselected)

\* lines 75-83: visit every selected id; root.index on an undefined root throws
\* a TypeError at the first id visited.  ids is what is left to visit.
RECURSIVE pruneLoop(_, _, _, _, _)
pruneLoop(ids, r, prevRoot, selected, deselected) ==
  IF ids = <<>>
    THEN [threw |-> FALSE, selected |-> selected, deselected |-> deselected]
  ELSE IF r = Undefined
    THEN [threw |-> TRUE, selected |-> selected, deselected |-> deselected]
  ELSE LET id == Head(ids)
       IN IF getById(r, id)
            THEN pruneLoop(Tail(ids), r, prevRoot, selected, deselected)
            ELSE pruneLoop(Tail(ids), r, prevRoot, SetDelete(selected, id),
                           IF prevRoot # Undefined /\ getById(prevRoot, id)
                             THEN SetAdd(deselected, id)
                             ELSE deselected)

\* the comparison of the previous ids without its negation
selectionChangedNoNegation(prevSelected, selected) ==
  Len(prevSelected) # Len(selected)
    \/ (\A i \in 1..Len(prevSelected) : SetHas(selected, prevSelected[i]))

\* an absent root is not stored
storeRootUnlessAbsent(prevRoot, r) == IF r = Undefined THEN prevRoot ELSE r

\* line 59: this.root = root
storeRoot(prevRoot, r) == r

\* line 86
selectionChanged(prevSelected, selected) ==
  Len(prevSelected) # Len(selected)
    \/ ~(\A i \in 1..Len(prevSelected) : SetHas(selected, prevSelected[i]))

\* the root counted as changed whenever one is passed
rootChangedSet(prevRoot, r) == r # Undefined

\* line 92: reference identity
rootChanged(prevRoot, r) == prevRoot # r

FeedbackEvent(selected, deselected) ==
  [kind |-> "feedback", listener |-> None, root |-> Undefined,
   selected |-> selected, deselected |-> deselected]

NotifyEvent(listener, r, selected) ==
  [kind |-> "notify", listener |-> listener, root |-> r,
   selected |-> selected, deselected |-> <<>>]

\* lines 89, 99-101: one SelectFeedbackAction handed to the feedback dispatcher
dispatchFeedback(selected, deselected) ==
  <<FeedbackEvent(ArrayFrom(selected), ArrayFrom(deselected))>>

\* forEach that goes on to the next listener after a listener has thrown
RECURSIVE notifyListenersIsolated(_, _, _, _)
notifyListenersIsolated(listeners, r, selected, failing) ==
  IF listeners = <<>> THEN <<>>
  ELSE <<NotifyEvent(Head(listeners), r, ArrayFrom(selected))>>
         \o notifyListenersIsolated(Tail(listeners), r, selected, failing)

\* forEach walking the listener array from its end
RECURSIVE notifyListenersReversed(_, _, _, _)
notifyListenersReversed(listeners, r, selected, failing) ==
  IF listeners = <<>> THEN <<>>
  ELSE LET last == listeners[Len(listeners)]
       IN <<NotifyEvent(last, r, ArrayFrom(selected))>>
            \o (IF last = failing
                  THEN <<>>
                  ELSE notifyListenersReversed(SubSeq(listeners, 1, Len(listeners) - 1),
                                               r, selected, failing))

\* lines 103-105: forEach over the listener array; a listener that throws
\* (failing) has been called, and ends the loop
RECURSIVE notifyListeners(_, _, _, _)
notifyListeners(listeners, r, selected, failing) ==
  IF listeners = <<>> THEN <<>>
  ELSE <<NotifyEvent(Head(listeners), r, ArrayFrom(selected))>>
         \o (IF Head(listeners) = failing
               THEN <<>>
               ELSE notifyListeners(Tail(listeners), r, selected, failing))

\* the listeners notified before the feedback is dispatched
emitListenersFirst(feedback, notified) == notified \o feedback

\* lines 87-96: the feedback is dispatched, then the listeners are notified
emit(feedback, notified) == feedback \o notified

\* lines 51-97: the stored root and selection, what was emitted, and how the
\* call ended, for a call made in the state (curRoot, curSelected, listeners)
updateSelectionResult(curRoot, curSelected, listeners, r, select, deselect, failing) ==
  IF isNoOp(r, select, deselect)
    THEN [root |-> curRoot, selected |-> curSelected, trace |-> <<>>,
          outcome |-> "returned"]
  ELSE
    LET prevRoot == curRoot
        thisRoot == storeRoot(prevRoot, r)
        prevSelectedElementIDs == NewSet(curSelected)
        applied == applySelection(curSelected, select, deselect)
        deselectedElementIDs == NewSet(toDeselect(select, deselect, curSelected))
        pruned == pruneLoop(applied, r, prevRoot, applied, deselectedElementIDs)
        selChanged == selectionChanged(prevSelectedElementIDs, pruned.selected)
        feedback == IF selChanged
                      THEN dispatchFeedback(pruned.selected, pruned.deselected)
                      ELSE <<>>
        notified == IF rootChanged(prevRoot, r) \/ selChanged
                      THEN notifyListeners(listeners, thisRoot, pruned.selected, failing)
                      ELSE <<>>
        listenerThrew == \E i \in 1..Len(notified) : notified[i].listener = failing
    IN IF pruned.threw
         THEN [root |-> thisRoot, selected |-> pruned.selected, trace |-> <<>>,
               outcome |-> "TypeError"]
         ELSE [root |-> thisRoot, selected |-> pruned.selected,
               trace |-> emit(feedback, notified),
               outcome |-> IF listenerThrew THEN "ListenerError" ELSE "returned"]

\* ---------------------------------------------------------------- state
NoCall ==
  [op |-> "none", root |-> Undefined, select |-> <<>>, deselect |-> <<>>,
   listener |-> None, failing |-> None, repeat |-> FALSE]

Snapshot == [root |-> root, selected |-> selectedElementIDs,
             listeners |-> selectionListeners]

NoSnapshot == [root |-> Undefined, selected |-> <<>>, listeners |-> <<>>]

\* the event loop is between two calls
Idle == call.op = "none"

\* line 32 and the constructor, line 37: no root, nothing selected, and the
\* injected listeners (one per binding, [] by default)
Init ==
  /\ root = Undefined
  /\ selectedElementIDs = <<>>
  /\ selectionListeners \in {s \in SeqsUpTo(Listeners, Cardinality(Listeners)) : IsInjective(s)}
  /\ call = NoCall
  /\ prev = NoSnapshot
  /\ trace = <<>>
  /\ outcome = "none"

\* the listeners whose selectionChanged may throw; the listeners are
\* interchangeable, so one that throws, at any place of the list, is enough
Throwing == {"l2"}

\* the listener whose selectionChanged throws during this call, if any
Failing == {None} \cup (Range(selectionListeners) \cap Throwing)

\* lines 51-97 (res is the one result of the call)
UpdateSelection ==
  /\ Idle
  /\ \E r \in Roots \cup {Undefined}, select \in SeqsUpTo(Ids, MaxSelect),
     deselect \in SeqsUpTo(Ids, MaxDeselect), failing \in Failing :
    \E res \in {updateSelectionResult(root, selectedElementIDs, selectionListeners,
                                     r, select, deselect, failing)} :
       /\ (failing # None => res.outcome = "ListenerError")
       /\ root' = res.root
       /\ selectedElementIDs' = res.selected
       /\ trace' = res.trace
       /\ outcome' = res.outcome
       /\ call' = [op |-> "updateSelection", root |-> r, select |-> select,
                   deselect |-> deselect, listener |-> None, failing |-> failing,
                   repeat |-> FALSE]
       /\ prev' = Snapshot
       /\ UNCHANGED selectionListeners

\* lines 47-49
ModelRootChanged ==
  /\ Idle
  /\ \E r \in Roots \cup {Undefined}, failing \in Failing :
    \E res \in {updateSelectionResult(root, selectedElementIDs, selectionListeners,
                                     r, <<>>, <<>>, failing)} :
       /\ (failing # None => res.outcome = "ListenerError")
       /\ root' = res.root
       /\ selectedElementIDs' = res.selected
       /\ trace' = res.trace
       /\ outcome' = res.outcome
       /\ call' = [op |-> "modelRootChanged", root |-> r, select |-> <<>>,
                   deselect |-> <<>>, listener |-> None, failing |-> failing,
                   repeat |-> FALSE]
       /\ prev' = Snapshot
       /\ UNCHANGED selectionListeners

\* register that pushes the listener without looking for it
RegisterPush ==
  \E l \in Listeners :
    /\ Idle
    /\ selectionListeners' = Append(selectionListeners, l)
    /\ call' = [op |-> "register", root |-> Undefined, select |-> <<>>,
                deselect |-> <<>>, listener |-> l, failing |-> None,
                repeat |-> FALSE]
    /\ prev' = Snapshot
    /\ trace' = <<>>
    /\ outcome' = "returned"
    /\ UNCHANGED <<root, selectedElementIDs>>

\* lines 39-41
Register ==
  \E l \in Listeners :
    /\ Idle
    /\ selectionListeners' = distinctAdd(selectionListeners, l)
    /\ call' = [op |-> "register", root |-> Undefined, select |-> <<>>,
                deselect |-> <<>>, listener |-> l, failing |-> None,
                repeat |-> FALSE]
    /\ prev' = Snapshot
    /\ trace' = <<>>
    /\ outcome' = "returned"
    /\ UNCHANGED <<root, selectedElementIDs>>

\* deregister that leaves the listener array as it is
DeregisterKeep ==
  \E l \in Listeners :
    /\ Idle
    /\ selectionListeners' = selectionListeners
    /\ call' = [op |-> "deregister", root |-> Undefined, select |-> <<>>,
                deselect |-> <<>>, listener |-> l, failing |-> None,
                repeat |-> FALSE]
    /\ prev' = Snapshot
    /\ trace' = <<>>
    /\ outcome' = "returned"
    /\ UNCHANGED <<root, selectedElementIDs>>

\* lines 43-45
Deregister ==
  \E l \in Listeners :
    /\ Idle
    /\ selectionListeners' = remove(selectionListeners, l)
    /\ call' = [op |-> "deregister", root |-> Undefined, select |-> <<>>,
                deselect |-> <<>>, listener |-> l, failing |-> None,
                repeat |-> FALSE]
    /\ prev' = Snapshot
    /\ trace' = <<>>
    /\ outcome' = "returned"
    /\ UNCHANGED <<root, selectedElementIDs>>

\* lines 51-97, called a second time in a row with the arguments of the
\* updateSelection call that has just ended
RepeatUpdateSelection ==
  /\ call.op = "updateSelection"
  /\ \E failing \in Failing :
    \E res \in {updateSelectionResult(root, selectedElementIDs, selectionListeners,
                                     call.root, call.select, call.deselect, failing)} :
       /\ (failing # None => res.outcome = "ListenerError")
       /\ root' = res.root
       /\ selectedElementIDs' = res.selected
       /\ trace' = res.trace
       /\ outcome' = res.outcome
       /\ call' = [call EXCEPT !.failing = failing, !.repeat = TRUE]
       /\ prev' = Snapshot
       /\ UNCHANGED selectionListeners

\* the call is over: control is back in the event loop
Return ==
  /\ ~Idle
  /\ call' = NoCall
  /\ prev' = NoSnapshot
  /\ trace' = <<>>
  /\ outcome' = "none"
  /\ UNCHANGED <<root, selectedElementIDs, selectionListeners>>

Next ==
  \/ UpdateSelection
  \/ RepeatUpdateSelection
  \/ ModelRootChanged
  \/ Register
  \/ Deregister
  \/ Return

Spec == Init /\ [][Next]_vars

TypeOK ==
  /\ root \in Roots \cup {Undefined}
  /\ IsInjective(selectedElementIDs) /\ Range(selectedElementIDs) \subseteq Ids
  /\ Range(selectionListeners) \subseteq Listeners
  /\ outcome \in {"none", "returned", "TypeError", "ListenerError"}

\* ------------------------------------------------------------ observers
\* the selection set as a set
Selected == Range(selectedElementIDs)
PrevSelected == Range(prev.selected)

IsUpdate == call.op = "updateSelection"
IsRootUpdate == call.op \in {"updateSelection", "modelRootChanged"}

\* the positions of the feedbacks and of the notifications in the trace
FeedbackAt == {i \in 1..Len(trace) : trace[i].kind = "feedback"}
NotifyAt == {i \in 1..Len(trace) : trace[i].kind = "notify"}
NotifyOf(l) == {i \in NotifyAt : trace[i].listener = l}

\* ids passed in both lists of the call that the passed root resolves
InBothResolvable ==
  IF call.root = Undefined THEN {}
  ELSE {id \in Range(call.select) \cap Range(call.deselect) : getById(call.root, id)}

\* --------------------------------------------------------------- claims

\* C1 as stated: after updateSelection with a set root, every id that is in
\* both lists and resolvable in the root is selected when the call returns.
C1_SelectWins ==
  (IsUpdate /\ outcome = "returned") => InBothResolvable \subseteq Selected

\* C1 amended: after updateSelection with a set root, every id that is in both
\* lists and resolvable in the root is selected exactly if it was selected
\* before the call (the two requests cancel).
C1_BothListsKeepMembership ==
  IsUpdate => \A id \in InBothResolvable : (id \in Selected) <=> (id \in PrevSelected)

C1_Witness ==
  /\ IsUpdate /\ outcome = "returned"
  /\ \E id \in InBothResolvable : id \notin PrevSelected /\ id \notin Selected
  /\ PrevSelected # {}

\* C2 as stated: in every reachable state every selected id is resolvable in
\* the stored root, and nothing is selected while no root is stored.
C2_SelectionResolvable ==
  \A id \in Selected : root # Undefined /\ getById(root, id)

\* C3: an updateSelection call across which neither the stored root nor the
\* contents of the selection set change dispatches no feedback and notifies
\* no listener.
C3_NoChangeNoNotification ==
  (IsUpdate /\ root = prev.root /\ Selected = PrevSelected) => trace = <<>>

C3_Witness ==
  /\ IsUpdate /\ outcome = "returned"
  /\ root = prev.root /\ root # Undefined /\ Selected = PrevSelected
  /\ call.select # <<>> /\ call.deselect # <<>>
  /\ Selected # {} /\ selectionListeners # <<>>
  /\ trace = <<>>

\* C4 as stated: an updateSelection call that leaves the selection set
\* different from the one before the call dispatches exactly one feedback,
\* whose selected list holds exactly the ids of the selection set the tracker
\* holds after the call.
C4_ChangeOneFeedback ==
  (IsUpdate /\ Selected # PrevSelected) =>
    /\ Cardinality(FeedbackAt) = 1
    /\ \A i \in FeedbackAt : Range(trace[i].selected) = Selected

\* C5 as stated: an updateSelection or modelRootChanged call that changes the
\* stored root or the contents of the selection set notifies every registered
\* listener exactly once, with the root passed to the call and the ids of the
\* selection set after the update.
C5_ChangeNotifiesAll ==
  (IsRootUpdate /\ (root # prev.root \/ Selected # PrevSelected)) =>
    \A l \in Range(selectionListeners) :
      /\ Cardinality(NotifyOf(l)) = 1
      /\ \A i \in NotifyOf(l) :
           trace[i].root = call.root /\ Range(trace[i].selected) = Selected

\* C6: in an updateSelection call that emits a feedback and listener
\* notifications, the feedback comes before every listener notification.
C6_FeedbackBeforeListeners ==
  IsUpdate => \A i \in FeedbackAt, j \in NotifyAt : i < j

C6_Witness ==
  IsUpdate /\ FeedbackAt # {} /\ Cardinality(NotifyAt) >= 2

\* C7 as stated: after updateSelection or modelRootChanged with a root that
\* lacks an id selected before the call, the id is not selected, and it is in
\* the deselected list of the emitted feedback exactly if a previous root
\* existed and resolved it.
C7_PrunedReportedIffInPrevRoot ==
  (IsRootUpdate /\ call.root # Undefined) =>
    \A id \in PrevSelected :
      ~getById(call.root, id) =>
        /\ id \notin Selected
        /\ (\E i \in FeedbackAt : id \in Range(trace[i].deselected))
             <=> (prev.root # Undefined /\ getById(prev.root, id))

\* C8: updateSelection with an absent root and two empty lists changes
\* neither the stored root, the selection set nor the listener list, and
\* emits no feedback and no listener notification.
C8_StrictNoOp ==
  (IsUpdate /\ call.root = Undefined /\ call.select = <<>> /\ call.deselect = <<>>) =>
    /\ root = prev.root
    /\ selectedElementIDs = prev.selected
    /\ selectionListeners = prev.listeners
    /\ trace = <<>>
    /\ outcome = "returned"

C8_Witness ==
  /\ IsUpdate /\ call.root = Undefined /\ call.select = <<>> /\ call.deselect = <<>>
  /\ prev.root # Undefined /\ prev.selected # <<>> /\ prev.listeners # <<>>
  /\ outcome = "returned"

\* C9 as stated: updateSelection raises no error of its own, whatever the
\* state and the input, an absent root with a non-empty list included.
C9_NoErrorRaised ==
  IsUpdate => outcome # "TypeError"

\* C10: registering a listener that is registered leaves the listener list
\* unchanged, and every registered listener gets exactly one notification
\* from an update that notifies the listeners and returns.
C10_RegisterIdempotent ==
  /\ (call.op = "register" /\ call.listener \in Range(prev.listeners))
       => selectionListeners = prev.listeners
  /\ (IsRootUpdate /\ outcome = "returned" /\ NotifyAt # {})
       => \A l \in Range(selectionListeners) : Cardinality(NotifyOf(l)) = 1

C10_Witness ==
  /\ call.op = "register" /\ call.listener \in Range(prev.listeners)
  /\ Len(prev.listeners) = 2

\* l comes before m in the array arr
Before(arr, l, m) ==
  \E i, j \in 1..Len(arr) : i < j /\ arr[i] = l /\ arr[j] = m

\* C11: the listeners are notified in the order of the listener list, which
\* is the order of registration: a new listener is put at the end, and a
\* deregistration keeps the order of the other listeners.
C11_NotifiedInRegistrationOrder ==
  /\ IsRootUpdate =>
       \A l, m \in Range(selectionListeners) :
         Before(selectionListeners, l, m) =>
           \A i \in NotifyOf(l), j \in NotifyOf(m) : i < j
  /\ (call.op = "register" /\ call.listener \notin Range(prev.listeners)) =>
       selectionListeners = Append(prev.listeners, call.listener)
  /\ call.op = "deregister" =>
       \A l, m \in Range(selectionListeners) :
         Before(selectionListeners, l, m) <=> Before(prev.listeners, l, m)

C11_Witness ==
  /\ IsRootUpdate /\ outcome = "returned"
  /\ Len(selectionListeners) = 3 /\ Cardinality(NotifyAt) = 3
  /\ selectionListeners # <<"l1", "l2", "l3">>

\* C12: deregister takes the listener out of the listener list and leaves
\* the root and the selection alone; it changes nothing when the listener is
\* not registered; only register adds a listener; and an update notifies
\* registered listeners only.
C12_DeregisteredNotNotified ==
  /\ call.op = "deregister" =>
       /\ call.listener \notin Range(selectionListeners)
       /\ root = prev.root /\ selectedElementIDs = prev.selected
       /\ (call.listener \notin Range(prev.listeners)
             => selectionListeners = prev.listeners)
  /\ call.op \in {"deregister", "updateSelection", "modelRootChanged"} =>
       Range(selectionListeners) \subseteq Range(prev.listeners)
  /\ IsRootUpdate =>
       \A i \in NotifyAt : trace[i].listener \in Range(selectionListeners)

C12_Witness ==
  /\ call.op = "deregister" /\ call.listener \in Range(prev.listeners)
  /\ Len(prev.listeners) = 3 /\ Len(selectionListeners) = 2

\* the ids reported as deselected by a feedback of the call
ReportedDeselected ==
  UNION {Range(trace[i].deselected) : i \in FeedbackAt}

\* the call is updateSelection with empty lists and no root
IsStrictNoOpCall ==
  IsUpdate /\ call.root = Undefined /\ call.select = <<>> /\ call.deselect = <<>>

\* C13: updateSelection with the stored root, a select list of selected ids
\* and a deselect list of ids that are not selected leaves the selection set
\* as it is; and an id of the deselect list that was not selected is in no
\* deselected report, whatever the call.
C13_IdempotentRequests ==
  /\ (IsUpdate /\ call.root = prev.root
        /\ Range(call.select) \subseteq PrevSelected
        /\ Range(call.deselect) \cap PrevSelected = {})
       => selectedElementIDs = prev.selected
  /\ IsUpdate => (Range(call.deselect) \ PrevSelected) \cap ReportedDeselected = {}

C13_Witness ==
  /\ IsUpdate /\ outcome = "returned"
  /\ call.root = prev.root /\ call.root # Undefined
  /\ call.select # <<>> /\ Range(call.select) \subseteq PrevSelected
  /\ call.deselect # <<>> /\ Range(call.deselect) \cap PrevSelected = {}
  /\ selectedElementIDs = prev.selected

\* C14: after an updateSelection call that is not the strict no-op the
\* stored root is the root passed to the call, also when the selection set
\* did not change; and every listener notification carries the root and the
\* selection that the tracker holds.
C14_RootStored ==
  /\ (IsUpdate /\ ~IsStrictNoOpCall) => root = call.root
  /\ IsUpdate =>
       \A i \in NotifyAt :
         trace[i].root = root /\ trace[i].selected = selectedElementIDs

C14_Witness ==
  /\ IsUpdate /\ ~IsStrictNoOpCall /\ outcome = "returned"
  /\ root = call.root /\ root # prev.root /\ prev.root # Undefined
  /\ selectedElementIDs = prev.selected /\ selectedElementIDs # <<>>
  /\ NotifyAt # {}

\* what the call would have left had no listener thrown
WithoutFailure ==
  updateSelectionResult(prev.root, prev.selected, prev.listeners,
                        call.root, call.select, call.deselect, None)

\* C15: when a listener throws while it is notified during updateSelection,
\* the call ends with that error, no listener after the throwing one is
\* notified, and the stored root and selection are the new ones, those the
\* call leaves when no listener throws.
C15_ListenerFailurePropagates ==
  (IsUpdate /\ NotifyOf(call.failing) # {}) =>
    /\ outcome = "ListenerError"
    /\ \A l \in Range(selectionListeners) :
         Before(selectionListeners, call.failing, l) => NotifyOf(l) = {}
    /\ root = call.root
    /\ root = WithoutFailure.root
    /\ selectedElementIDs = WithoutFailure.selected

C15_Witness ==
  /\ IsUpdate /\ outcome = "ListenerError"
  /\ NotifyOf(call.failing) # {}
  /\ Len(selectionListeners) = 3 /\ selectionListeners[1] = call.failing
  /\ root # prev.root /\ Selected # PrevSelected /\ PrevSelected # {}

\* C16: in every feedback of updateSelection the selected and the deselected
\* list share no id, and no id of the deselected list is in the selection
\* set after the call.
C16_SelectedDeselectedDisjoint ==
  IsUpdate =>
    \A i \in FeedbackAt :
      /\ Range(trace[i].selected) \cap Range(trace[i].deselected) = {}
      /\ Range(trace[i].deselected) \cap Selected = {}

C16_Witness ==
  /\ IsUpdate /\ outcome = "returned"
  /\ \E i \in FeedbackAt : trace[i].selected # <<>> /\ trace[i].deselected # <<>>
  /\ call.select # <<>> /\ call.deselect # <<>>

\* ids of the select list that the call adds: not in the deselect list and
\* not selected before
NewlySelected ==
  (Range(call.select) \ Range(call.deselect)) \ PrevSelected

\* the passed root is set and lacks id
LacksId(id) == call.root # Undefined /\ ~getById(call.root, id)

\* a root was stored before the call and it resolves id
PrevRootHas(id) == prev.root # Undefined /\ getById(prev.root, id)

C18_OtherIdsKeepMembership ==
  (IsUpdate /\ call.root # Undefined) =>
    /\ \A id \in Ids \ (Range(call.select) \cup Range(call.deselect)) :
         getById(call.root, id) => (id \in Selected <=> id \in PrevSelected)
    /\ Selected \subseteq PrevSelected \cup Range(call.select)

C18_Witness ==
  /\ IsUpdate /\ call.root # Undefined /\ outcome = "returned"
  /\ call.select # <<>> /\ call.deselect # <<>>
  /\ \E id \in Ids \ (Range(call.select) \cup Range(call.deselect)) :
       getById(call.root, id) /\ id \in PrevSelected /\ id \in Selected
  /\ Selected # PrevSelected

\* C20 as stated: an updateSelection call that ends with the error of an
\* absent root leaves the stored root and the selection set as they were
\* before the call, and has emitted no feedback and no listener notification.
C20_ErrorLeavesStateUntouched ==
  (IsUpdate /\ outcome = "TypeError") =>
    /\ root = prev.root
    /\ selectedElementIDs = prev.selected
    /\ trace = <<>>

\* C19: a second updateSelection call in a row with the same set root and
\* the same lists leaves the stored root and the selection set as the first
\* call left them, dispatches no feedback and notifies no listener.
C19_SecondCallChangesNothing ==
  (IsUpdate /\ call.repeat /\ call.root # Undefined) =>
    /\ root = prev.root
    /\ selectedElementIDs = prev.selected
    /\ trace = <<>>

C19_Witness ==
  /\ IsUpdate /\ call.repeat /\ call.root # Undefined /\ outcome = "returned"
  /\ call.select # <<>> /\ call.deselect # <<>>
  /\ \E id \in Range(call.select) : ~getById(call.root, id)
  /\ selectedElementIDs # <<>> /\ selectionListeners # <<>>
====
